---- MODULE Spec2Model ----
(***************************************************************************)
(* Authentication core of the restaurant-finder bot backend: the           *)
(* credential store (PostgreSQL users table), the JWT manager, the two     *)
(* bearer-token gates, the auth handlers and the auth use case.            *)
(*                                                                         *)
(* Every HTTP request is served by its own worker.  A worker's steps are   *)
(* the store accesses of the use case it runs: everything a handler does   *)
(* between two store accesses is local and happens in the same step.       *)
(*                                                                         *)
(* Three components are also specified on their own: the password hasher   *)
(* (SpecPassword), the request-logging middleware (SpecLogging) and the     *)
(* filter of the restaurant search (SpecRestaurant).  SpecFaults is the     *)
(* authentication core over a store whose accesses can fail.               *)
(***************************************************************************)
EXTENDS Integers, FiniteSets, Sequences, TLC

\* ------------------------------------------------------------------ bounds

\* The clock runs from 0 to MaxTime, in units of 15 minutes.
MaxTime == 2
\* Lifetime of a session token in clock units (jwt.expiry of the configuration).
SessionTTL == 2
\* HashPassword calls made on the password hasher alone.
MaxHashes == 2
\* Requests sent through LoggingMiddleware.
MaxRequests == 2
\* Entries of an answer of the places API.
MaxUpstream == 12

\* -------------------------------------------------------- program constants

\* 15 * time.Minute, in clock units.
TempTTL == 1
StatusOK == 200
StatusCreated == 201
StatusBadRequest == 400
StatusUnauthorized == 401
StatusInternalServerError == 500
\* len(req.Password) < 8
MinPasswordLen == 8
\* len(req.Code) != 6
CodeLen == 6
\* The longest password bcrypt.GenerateFromPassword takes, in bytes.
BcryptMaxBytes == 72
\* context.WithTimeout(context.Background(), 5*time.Second), in seconds.
LogTimeout == 5
\* if len(filtered) > 10 { filtered = filtered[:10] }
MaxResults == 10
\* if restaurant.Rating < 0, if restaurant.Rating > 5
MinRating == 0
MaxRating == 5

\* ------------------------------------------------------------------ inputs

\* Requests are served two at a time.
Workers == {"w1", "w2"}
\* The addresses accounts are registered for, and one no account is ever
\* registered for.
Emails == {"alice@example.com"}
Ids == 1..(Cardinality(Emails) + 1)
RegisterEmails == Emails \cup {""}
LoginEmails == Emails \cup {"nope@x.com", ""}
RegisterPasswords == {"password123", "short", "parolq", ""}
LoginPasswords == {"password123", "wrongpass", ""}
FullNames == {"Alice A", ""}
\* bcrypt draws a fresh salt for every hash.
Salts == {1}
\* totp.Generate draws a fresh 32-byte secret; "" is the NULL column.
Secrets == {"SECRETA", "SECRETB"}
CodeInputs == {"111111", "222222", "000000", "abcdef", "12345", ""}

\* ------------------------------------------------------------- data model

NoHash == [pw |-> "", salt |-> 0]

\* The zero domain.User, and the nil *domain.User of a failed read.
NoUser ==
    [id |-> 0, email |-> "", password |-> NoHash, full_name |-> "",
     is_active |-> FALSE, is_2fa_enabled |-> FALSE, totp_secret |-> ""]

\* The empty token string of an AuthResponse, and a request without
\* Authorization header.
NoToken ==
    [user_id |-> 0, email |-> "", is_2fa |-> FALSE, temp_auth |-> FALSE,
     exp |-> 0, nbf |-> 0, alg |-> "", key |-> ""]

VARIABLES
    users,      \* the users table: id -> row
    issued,     \* the tokens the clients hold
    now,        \* the clock
    local,      \* per worker: the request it serves and what it needs of its reads
    resp,       \* the response sent last, with the request it answers
    hashed,     \* the password hasher alone: what HashPassword returned, call by call
    checked,    \* the password hasher alone: the last CheckPassword call
    received,   \* request logging: the requests received so far
    inflight,   \* request logging: per worker, the request inside LoggingMiddleware
    served,     \* request logging: the responses sent, each with what the handler returned
    logs,       \* request logging: the log goroutines started
    upstream,   \* restaurant search: the results the places API answered
    returned    \* restaurant search: what the use case returned for them

\* The authentication core, and the components checked on their own.
authVars == <<users, issued, now, local, resp>>
passwordVars == <<hashed, checked>>
loggingVars == <<received, inflight, served, logs>>
restaurantVars == <<upstream, returned>>
aux == <<passwordVars, loggingVars, restaurantVars>>
vars == <<authVars, aux>>

\* --------------------------------------------------------- password hasher

\* The passwords handed to the hasher alone: two everyday ones, one of
\* exactly BcryptMaxBytes bytes and two longer ones that begin with it.
Long72 == "aaaaaaaaaaaaaaaaaaaaaaaaaaaaaaaaaaaaaaaaaaaaaaaaaaaaaaaaaaaaaaaaaaaaaaaa"
KeyTails == {"b", "c"}
HasherPasswords == {"testpassword123", "wrongpassword", Long72} \cup {Long72 \o s : s \in KeyTails}

\* bcrypt keys the cipher with the first BcryptMaxBytes bytes of the password.
BcryptKey(password) ==
    IF Len(password) <= BcryptMaxBytes THEN password
    ELSE CHOOSE k \in HasherPasswords :
            Len(k) = BcryptMaxBytes /\ \E s \in KeyTails : password = k \o s

\* Variant: a hash that does not depend on the salt drawn.
HashPassword_Unsalted(password, salt) == [pw |-> BcryptKey(password), salt |-> 1]

\* The hash of a password under a salt: a hash bcrypt can parse carries a
\* salt, and salt 0 marks a string that is no bcrypt hash.
HashPassword(password, salt) == [pw |-> BcryptKey(password), salt |-> salt]

\* bcrypt.CompareHashAndPassword answers an error for a string it cannot
\* parse and for a mismatch; CheckPassword answers err == nil.
CheckPassword(password, hash) == hash.salt # 0 /\ hash.pw = BcryptKey(password)

\* Strings that are no bcrypt hash: the empty one and a plaintext password.
Unparseable == {NoHash, [pw |-> "testpassword123", salt |-> 0]}

NoCheck == [password |-> "", hash |-> NoHash, ok |-> FALSE, called |-> FALSE]

\* ------------------------------------------------------ request logging

\* What c.Next() hands back to LoggingMiddleware: the error of the chain and
\* the status the response holds by then.
NoResult == [err |-> "", status |-> 0]
HandlerResults ==
    {[err |-> "", status |-> StatusOK], [err |-> "", status |-> StatusUnauthorized],
     [err |-> "handler failed", status |-> StatusOK]}

NoRequest == [pc |-> "idle", id |-> 0, result |-> NoResult]

\* ----------------------------------------------------- restaurant search

NoSearch == [called |-> FALSE, op |-> "", restaurants |-> <<>>]

\* What the places API can say of a place: names (two of them blank, one
\* padded), ratings (two out of range) and business statuses.
Names == {"Warung", "  Kedai  ", "   ", ""}
Ratings == {-1, 0, 3, 5, 6}
Statuses == {"", "OPERATIONAL", "CLOSED_TEMPORARILY", "CLOSED_PERMANENTLY"}

Restaurant(place_id, name, rating, status) ==
    [place_id |-> place_id, name |-> name, rating |-> rating, business_status |-> status]

\* strings.TrimSpace
TrimSpace(str) ==
    CASE str = "  Kedai  " -> "Kedai"
      [] str = "   " -> ""
      [] OTHER -> str

\* The entry the places API answers at position i: open is whether the
\* place has a name and is not closed for good; its other attributes go
\* through the names, ratings and statuses with its position.
Place(i, open) ==
    IF open
    THEN Restaurant(i,
            IF i % 2 = 0 THEN "  Kedai  " ELSE "Warung",
            CASE i % 5 = 0 -> -1 [] i % 5 = 1 -> 6 [] i % 5 = 2 -> 3
              [] i % 5 = 3 -> 0 [] OTHER -> 5,
            CASE i % 3 = 0 -> "" [] i % 3 = 1 -> "OPERATIONAL"
              [] OTHER -> "CLOSED_TEMPORARILY")
    ELSE CASE i % 3 = 0 -> Restaurant(i, "   ", 4, "OPERATIONAL")
           [] i % 3 = 1 -> Restaurant(i, "Tutup", 4, "CLOSED_PERMANENTLY")
           [] OTHER -> Restaurant(i, "", 6, "")

enhanceRestaurantData(restaurant) ==
    [restaurant EXCEPT
        !.name = TrimSpace(restaurant.name),
        !.rating = IF restaurant.rating < MinRating THEN MinRating
                   ELSE IF restaurant.rating > MaxRating THEN MaxRating
                   ELSE restaurant.rating,
        !.business_status = IF restaurant.business_status = "" THEN "OPERATIONAL"
                            ELSE restaurant.business_status]

\* The loop of filterAndEnhanceResults from entry i on, filtered being what
\* it has appended so far.
RECURSIVE FilterLoop(_, _, _)
FilterLoop(restaurants, i, filtered) ==
    IF i > Len(restaurants) THEN filtered
    ELSE IF TrimSpace(restaurants[i].name) = ""
    THEN FilterLoop(restaurants, i + 1, filtered)
    ELSE IF restaurants[i].business_status = "CLOSED_PERMANENTLY"
    THEN FilterLoop(restaurants, i + 1, filtered)
    ELSE FilterLoop(restaurants, i + 1,
                    Append(filtered, enhanceRestaurantData(restaurants[i])))

\* Variant: the results without the cut to MaxResults.
filterAndEnhanceResults_NoLimit(restaurants) == FilterLoop(restaurants, 1, <<>>)

filterAndEnhanceResults(restaurants) ==
    LET filtered == FilterLoop(restaurants, 1, <<>>)
    IN  IF Len(filtered) > MaxResults THEN SubSeq(filtered, 1, MaxResults) ELSE filtered

\* ------------------------------------------------------------- JWT manager

\* Variant: a session token minted without the 2FA claim.
GenerateToken_No2FA(userID, email, is2FA, t) ==
    [user_id |-> userID, email |-> email, is_2fa |-> FALSE, temp_auth |-> FALSE,
     exp |-> t + SessionTTL, nbf |-> t, alg |-> "HS256", key |-> "server"]

\* Variant: a session token minted with the temporary marker set.
GenerateToken_Temporary(userID, email, is2FA, t) ==
    [user_id |-> userID, email |-> email, is_2fa |-> is2FA, temp_auth |-> TRUE,
     exp |-> t + SessionTTL, nbf |-> t, alg |-> "HS256", key |-> "server"]

GenerateToken(userID, email, is2FA, t) ==
    [user_id |-> userID, email |-> email, is_2fa |-> is2FA, temp_auth |-> FALSE,
     exp |-> t + SessionTTL, nbf |-> t, alg |-> "HS256", key |-> "server"]

\* Variant: a temporary token living as long as a session token.
GenerateTempToken_SessionTTL(userID, email, t) ==
    [user_id |-> userID, email |-> email, is_2fa |-> FALSE, temp_auth |-> TRUE,
     exp |-> t + SessionTTL, nbf |-> t, alg |-> "HS256", key |-> "server"]

GenerateTempToken(userID, email, t) ==
    [user_id |-> userID, email |-> email, is_2fa |-> FALSE, temp_auth |-> TRUE,
     exp |-> t + TempTTL, nbf |-> t, alg |-> "HS256", key |-> "server"]

\* Variant: a validation that does not look at exp.
ValidateToken_NoExpiry(tok, t) ==
    IF tok = NoToken THEN "token is malformed"
    ELSE IF tok.alg # "HS256" THEN "unexpected signing method"
    ELSE IF tok.key # "server" THEN "signature is invalid"
    ELSE IF ~(t >= tok.nbf) THEN "token is not valid yet"
    ELSE ""

\* "" when the token is accepted, else the error.
ValidateToken(tok, t) ==
    IF tok = NoToken THEN "token is malformed"
    ELSE IF tok.alg # "HS256" THEN "unexpected signing method"
    ELSE IF tok.key # "server" THEN "signature is invalid"
    ELSE IF ~(t < tok.exp) THEN "token is expired"
    ELSE IF ~(t >= tok.nbf) THEN "token is not valid yet"
    ELSE ""

\* The claims ValidateToken returns for a token it accepts.
Claims(tok) ==
    [user_id |-> tok.user_id, email |-> tok.email, is_2fa |-> tok.is_2fa,
     temp_auth |-> tok.temp_auth]

\* Variant: the temporary-token check without the TempAuth test.
ValidateTempToken_AnyToken(tok, t) == ValidateToken(tok, t)

ValidateTempToken(tok, t) ==
    IF ValidateToken(tok, t) # "" THEN ValidateToken(tok, t)
    ELSE IF ~tok.temp_auth THEN "not a temporary token"
    ELSE ""

\* ------------------------------------------------------------- TOTP engine

\* The code the engine derives from a secret for the current time step (the
\* empty secret decodes to an empty HMAC key, which has a code as well).
CodeOf(secret) ==
    CASE secret = "SECRETA" -> "111111"
      [] secret = "SECRETB" -> "222222"
      [] OTHER -> "000000"

TotpValidate(code, secret) == Len(code) = CodeLen /\ code = CodeOf(secret)

\* --------------------------------------------------- credential store

\* Variant: a lookup by email that finds nothing.
GetByEmail_Miss(email) == NoUser

GetByEmail(email) ==
    IF \E id \in DOMAIN users : users[id].email = email
    THEN users[CHOOSE id \in DOMAIN users : users[id].email = email]
    ELSE NoUser

GetByID(id) == IF id \in DOMAIN users THEN users[id] ELSE NoUser

\* The users table declares email UNIQUE: the INSERT of a second row with the
\* same email fails.
UniqueViolation(email) == \E id \in DOMAIN users : users[id].email = email

\* uuid.New()
NewID == CHOOSE id \in Ids \ DOMAIN users : TRUE

\* Variant: an INSERT that stores the account disabled.
Create_Inactive(user) ==
    users @@ (user.id :> [user EXCEPT !.totp_secret = "", !.is_active = FALSE])

\* The INSERT names no totp_secret: the column is NULL.
Create(user) == users @@ (user.id :> [user EXCEPT !.totp_secret = ""])

\* Variant: a stored secret is not replaced.
UpdateTOTPSecret_KeepOld(userID, secret) ==
    [id \in DOMAIN users |->
        IF id = userID /\ users[id].totp_secret = ""
        THEN [users[id] EXCEPT !.totp_secret = secret]
        ELSE users[id]]

\* Variant: storing a secret restarts the enrollment.
UpdateTOTPSecret_Restart(userID, secret) ==
    [id \in DOMAIN users |->
        IF id = userID
        THEN [users[id] EXCEPT !.totp_secret = secret, !.is_2fa_enabled = FALSE]
        ELSE users[id]]

UpdateTOTPSecret(userID, secret) ==
    [id \in DOMAIN users |->
        IF id = userID THEN [users[id] EXCEPT !.totp_secret = secret] ELSE users[id]]

\* Variant: enabling consumes the secret.
Enable2FA_DropsSecret(userID) ==
    [id \in DOMAIN users |->
        IF id = userID
        THEN [users[id] EXCEPT !.is_2fa_enabled = TRUE, !.totp_secret = ""]
        ELSE users[id]]

Enable2FA(userID) ==
    [id \in DOMAIN users |->
        IF id = userID THEN [users[id] EXCEPT !.is_2fa_enabled = TRUE] ELSE users[id]]

\* UPDATE users SET email, password, full_name, is_active, is_2fa_enabled:
\* totp_secret is not among the columns written.
UpdateRow(user) ==
    [id \in DOMAIN users |->
        IF id = user.id
        THEN [user EXCEPT !.totp_secret = users[id].totp_secret]
        ELSE users[id]]

\* ------------------------------------------------------- responses

Idle ==
    [pc |-> "idle", email |-> "", password |-> "", full_name |-> "", user |-> NoUser]

\* domain.AuthResponse with the error the use case returns beside it.
AuthResponse ==
    [err |-> "", token |-> NoToken, temp_token |-> NoToken, requires_2fa |-> FALSE,
     user |-> NoUser, backup_codes |-> ""]

AuthError(message) == [AuthResponse EXCEPT !.err = message]

\* What a handler sends: status, message and data of the APIResponse, then
\* what the replying step has of the request it answers (seen: the row the
\* use case read; given: the password or the 2FA code handed to the use case;
\* auth: the bearer token presented).
Reply(op, status, message, data, seen, given, auth) ==
    [op |-> op, status |-> status, message |-> message,
     token |-> data.token, temp_token |-> data.temp_token,
     requires_2fa |-> data.requires_2fa, user |-> data.user,
     backup_codes |-> data.backup_codes,
     seen |-> seen, given |-> given, auth |-> auth]

NoReply == Reply("", 0, "", AuthResponse, NoUser, "", NoToken)

\* The clients keep the tokens of a response, each in place of the token of
\* its kind (session, temporary) they held.
Keep(toks) ==
    (toks \ {NoToken})
        \cup {old \in issued : \A tok \in toks \ {NoToken} : tok.temp_auth # old.temp_auth}

\* A token a client can present: one it holds, one it holds re-signed with
\* another key or under another algorithm, or none.
Forge(tok) == {[tok EXCEPT !.key = "attacker"], [tok EXCEPT !.alg = "none"]}

Presentable == {NoToken} \cup issued \cup UNION {Forge(tok) : tok \in issued}

\* ----------------------------------------------------------- the gates

\* Variant: the full-session gate without the TempAuth test.
AuthMiddleware_NoTempCheck(tok, t) ==
    IF tok = NoToken THEN "Authorization header is required"
    ELSE IF ValidateToken(tok, t) # "" THEN "Invalid or expired token"
    ELSE ""

\* Variant: a full-session gate that looks the account up and turns away a
\* token whose account is gone or disabled.
AuthMiddleware_ActiveOnly(tok, t) ==
    IF tok = NoToken THEN "Authorization header is required"
    ELSE IF ValidateToken(tok, t) # "" THEN "Invalid or expired token"
    ELSE IF tok.temp_auth THEN "Temporary token cannot be used for this endpoint"
    ELSE IF ~GetByID(tok.user_id).is_active THEN "Invalid or expired token"
    ELSE ""

\* "" when the request passes, else the message of the 401.
AuthMiddleware(tok, t) ==
    IF tok = NoToken THEN "Authorization header is required"
    ELSE IF ValidateToken(tok, t) # "" THEN "Invalid or expired token"
    ELSE IF tok.temp_auth THEN "Temporary token cannot be used for this endpoint"
    ELSE ""

\* Variant: the temporary-token gate asking for a header only.
TempAuthMiddleware_Open(tok, t) ==
    IF tok = NoToken THEN "Authorization header is required" ELSE ""

TempAuthMiddleware(tok, t) ==
    IF tok = NoToken THEN "Authorization header is required"
    ELSE IF ValidateTempToken(tok, t) # "" THEN "Invalid or expired temporary token"
    ELSE ""

\* ------------------------------------------------------- the use case

\* Variant: Login telling a wrong password from an unknown email.
AuthUsecase_Login_WrongPassword(user, password, t) ==
    IF user = NoUser THEN AuthError("invalid credentials")
    ELSE IF ~CheckPassword(password, user.password) THEN AuthError("wrong password")
    ELSE IF ~user.is_active THEN AuthError("user account is disabled")
    ELSE IF user.is_2fa_enabled
    THEN [AuthResponse EXCEPT
            !.temp_token = GenerateTempToken(user.id, user.email, t),
            !.requires_2fa = TRUE]
    ELSE [AuthResponse EXCEPT
            !.token = GenerateToken(user.id, user.email, user.is_2fa_enabled, t),
            !.requires_2fa = FALSE,
            !.user = [user EXCEPT !.password = NoHash]]

\* Variant: Login handing the session token beside the temporary one.
AuthUsecase_Login_SessionBeside(user, password, t) ==
    IF user = NoUser THEN AuthError("invalid credentials")
    ELSE IF ~CheckPassword(password, user.password) THEN AuthError("invalid credentials")
    ELSE IF ~user.is_active THEN AuthError("user account is disabled")
    ELSE IF user.is_2fa_enabled
    THEN [AuthResponse EXCEPT
            !.token = GenerateToken(user.id, user.email, user.is_2fa_enabled, t),
            !.temp_token = GenerateTempToken(user.id, user.email, t),
            !.requires_2fa = TRUE]
    ELSE [AuthResponse EXCEPT
            !.token = GenerateToken(user.id, user.email, user.is_2fa_enabled, t),
            !.requires_2fa = FALSE,
            !.user = [user EXCEPT !.password = NoHash]]

\* AuthUsecase.Login once GetByEmail has answered with user (NoUser: the read
\* failed).
AuthUsecase_Login(user, password, t) ==
    IF user = NoUser THEN AuthError("invalid credentials")
    ELSE IF ~CheckPassword(password, user.password) THEN AuthError("invalid credentials")
    ELSE IF ~user.is_active THEN AuthError("user account is disabled")
    ELSE IF user.is_2fa_enabled
    THEN [AuthResponse EXCEPT
            !.temp_token = GenerateTempToken(user.id, user.email, t),
            !.requires_2fa = TRUE]
    ELSE [AuthResponse EXCEPT
            !.token = GenerateToken(user.id, user.email, user.is_2fa_enabled, t),
            !.requires_2fa = FALSE,
            !.user = [user EXCEPT !.password = NoHash]]

\* Variant: a verification that only a not yet enrolled account passes.
AuthUsecase_Verify2FA_Check_FirstOnly(tok, code, user, t) ==
    IF ValidateTempToken(tok, t) # "" THEN "invalid or expired temporary token"
    ELSE IF user = NoUser THEN "user not found"
    ELSE IF ~TotpValidate(code, user.totp_secret) THEN "invalid 2FA code"
    ELSE IF user.is_2fa_enabled THEN "2FA already verified"
    ELSE ""

\* AuthUsecase.Verify2FA up to the TOTP check, user being what GetByID
\* answered for the token's user_id: "" or the error returned.
AuthUsecase_Verify2FA_Check(tok, code, user, t) ==
    IF ValidateTempToken(tok, t) # "" THEN "invalid or expired temporary token"
    ELSE IF user = NoUser THEN "user not found"
    ELSE IF ~TotpValidate(code, user.totp_secret) THEN "invalid 2FA code"
    ELSE ""

\* Variant: the session token minted with the flag as it was read.
AuthUsecase_Verify2FA_Finish_AsRead(user, t) ==
    [AuthResponse EXCEPT
        !.token = GenerateToken(user.id, user.email, user.is_2fa_enabled, t),
        !.requires_2fa = FALSE,
        !.user = [user EXCEPT !.is_2fa_enabled = TRUE, !.password = NoHash,
                              !.totp_secret = ""]]

\* AuthUsecase.Verify2FA after the TOTP check (user.Is2FAEnabled is true by
\* now, read so or set so).
AuthUsecase_Verify2FA_Finish(user, t) ==
    [AuthResponse EXCEPT
        !.token = GenerateToken(user.id, user.email, TRUE, t),
        !.requires_2fa = FALSE,
        !.user = [user EXCEPT !.is_2fa_enabled = TRUE, !.password = NoHash,
                              !.totp_secret = ""]]

\* The user AuthUsecase.Register builds.
NewUser(id, email, password, full_name, salt) ==
    [id |-> id, email |-> email, password |-> HashPassword(password, salt),
     full_name |-> full_name, is_active |-> TRUE, is_2fa_enabled |-> FALSE,
     totp_secret |-> ""]

\* ------------------------------------------------------- the handlers

\* A password of six letters that take two bytes each in UTF-8 (Cyrillic
\* ones, say), written here with Latin letters.
TwoByteWords == {"parolq"}

\* len(s) of Go: the bytes of the UTF-8 encoding; Len(s) is the characters.
Utf8Len(s) == IF s \in TwoByteWords THEN 2 * Len(s) ELSE Len(s)

\* Variant: a validation that does not look at the password's length.
Register_Validate_AnyLength(email, password, full_name) ==
    IF email = "" THEN "Email is required"
    ELSE IF password = "" THEN "Password is required"
    ELSE IF full_name = "" THEN "Full name is required"
    ELSE ""

\* The basic validation of AuthHandler.Register: "" or the message of the 400.
Register_Validate(email, password, full_name) ==
    IF email = "" THEN "Email is required"
    ELSE IF password = "" THEN "Password is required"
    ELSE IF full_name = "" THEN "Full name is required"
    ELSE IF Utf8Len(password) < MinPasswordLen THEN "Password must be at least 8 characters"
    ELSE ""

Login_Validate(email, password) ==
    IF email = "" THEN "Email is required"
    ELSE IF password = "" THEN "Password is required"
    ELSE ""

Verify2FA_Validate(code) ==
    IF code = "" THEN "2FA code is required"
    ELSE IF Len(code) # CodeLen THEN "2FA code must be 6 digits"
    ELSE ""

\* AuthHandler.Login on the use case's answer.
Login_Reply(r, seen, password) ==
    IF r.err # ""
    THEN Reply("Login", StatusUnauthorized, r.err, AuthResponse, seen, password, NoToken)
    ELSE Reply("Login", StatusOK,
               IF r.requires_2fa THEN "2FA verification required" ELSE "Login successful",
               r, seen, password, NoToken)

\* ------------------------------------------------------------ actions

Start(w, pc, email, password, full_name, user) ==
    [local EXCEPT ![w] =
        [pc |-> pc, email |-> email, password |-> password, full_name |-> full_name,
         user |-> user]]

Done(w) == [local EXCEPT ![w] = Idle]

\* No handler is in flight.  A request that is answered without the store
\* being touched (refused by a gate or by a handler's validation, or served
\* from the claims of its token) is answered from the request and the clock
\* alone, whatever the other handlers are doing: such requests are sent
\* between the others.
Quiet == \A w \in Workers : local[w].pc = "idle"

\* A request is served by the first handler that is free.
Free(w) ==
    /\ local[w].pc = "idle"
    /\ w = IF local["w1"].pc = "idle" THEN "w1" ELSE "w2"

\* POST /auth/register up to the use case's GetByEmail.
RegisterStart(w, email, password, full_name) ==
    /\ resp = NoReply
    /\ Free(w)
    /\ IF Register_Validate(email, password, full_name) # ""
       THEN /\ Quiet
            /\ resp' = Reply("Register", StatusBadRequest,
                             Register_Validate(email, password, full_name),
                             AuthResponse, NoUser, "", NoToken)
            /\ UNCHANGED local
       ELSE IF GetByEmail(email) # NoUser
       THEN /\ resp' = Reply("Register", StatusBadRequest, "user already exists",
                             AuthResponse, GetByEmail(email), password, NoToken)
            /\ UNCHANGED local
       ELSE /\ local' = Start(w, "register_create", email, password, full_name, NoUser)
            /\ UNCHANGED resp
    /\ UNCHANGED <<users, issued, now>>
    /\ UNCHANGED aux

\* HashPassword, userRepo.Create and the reply.
RegisterCreate(w, salt) ==
    /\ resp = NoReply
    /\ local[w].pc = "register_create"
    /\ IF UniqueViolation(local[w].email)
       THEN /\ resp' = Reply("Register", StatusBadRequest, "failed to create user: duplicate key",
                             AuthResponse, NoUser, local[w].password, NoToken)
            /\ UNCHANGED users
       ELSE LET user == NewUser(NewID, local[w].email, local[w].password,
                                local[w].full_name, salt)
            IN  /\ users' = Create(user)
                /\ resp' = Reply("Register", StatusCreated, "User registered successfully",
                                 [AuthResponse EXCEPT !.user = [user EXCEPT !.password = NoHash]],
                                 NoUser, local[w].password, NoToken)
    /\ local' = Done(w)
    /\ UNCHANGED <<issued, now>>
    /\ UNCHANGED aux

\* POST /auth/login up to the use case's GetByEmail.
LoginStart(w, email, password) ==
    /\ resp = NoReply
    /\ Free(w)
    /\ IF Login_Validate(email, password) # ""
       THEN /\ Quiet
            /\ resp' = Reply("Login", StatusBadRequest, Login_Validate(email, password),
                             AuthResponse, NoUser, "", NoToken)
            /\ UNCHANGED local
       ELSE IF GetByEmail(email) = NoUser
       THEN /\ resp' = Login_Reply(AuthUsecase_Login(NoUser, password, now), NoUser, password)
            /\ UNCHANGED local
       ELSE /\ local' = Start(w, "login_check", email, password, "", GetByEmail(email))
            /\ UNCHANGED resp
    /\ UNCHANGED <<users, issued, now>>
    /\ UNCHANGED aux

\* The rest of AuthUsecase.Login, on the row read, and the reply.
LoginFinish(w) ==
    /\ resp = NoReply
    /\ local[w].pc = "login_check"
    /\ LET r == AuthUsecase_Login(local[w].user, local[w].password, now)
       IN  /\ resp' = Login_Reply(r, local[w].user, local[w].password)
           /\ issued' = Keep({r.token, r.temp_token})
    /\ local' = Done(w)
    /\ UNCHANGED <<users, now>>
    /\ UNCHANGED aux

\* POST /auth/2fa/setup behind AuthMiddleware, up to the use case's GetByID
\* (of the row read, the rest of the use case takes the email).
Setup2FAStart(w, tok) ==
    /\ resp = NoReply
    /\ Free(w)
    /\ IF AuthMiddleware(tok, now) # ""
       THEN /\ Quiet
            /\ resp' = Reply("Setup2FA", StatusUnauthorized, AuthMiddleware(tok, now),
                             AuthResponse, NoUser, "", tok)
            /\ UNCHANGED local
       ELSE IF GetByID(tok.user_id) = NoUser
       THEN /\ resp' = Reply("Setup2FA", StatusInternalServerError, "user not found",
                             AuthResponse, NoUser, "", tok)
            /\ UNCHANGED local
       ELSE /\ local' = Start(w, "setup_save", "", "", "",
                              [NoUser EXCEPT !.id = tok.user_id,
                                             !.email = GetByID(tok.user_id).email])
            /\ UNCHANGED resp
    /\ UNCHANGED <<users, issued, now>>
    /\ UNCHANGED aux

\* totp.Generate, userRepo.UpdateTOTPSecret and the reply.
Setup2FASave(w, secret) ==
    /\ resp = NoReply
    /\ local[w].pc = "setup_save"
    /\ users' = UpdateTOTPSecret(local[w].user.id, secret)
    /\ resp' = Reply("Setup2FA", StatusOK, "2FA setup successful",
                     [AuthResponse EXCEPT !.backup_codes = secret],
                     local[w].user, "", NoToken)
    /\ local' = Done(w)
    /\ UNCHANGED <<issued, now>>
    /\ UNCHANGED aux

\* POST /auth/2fa/verify behind TempAuthMiddleware: the handler and the use
\* case up to the TOTP check; a row read with 2FA enabled needs no write, so
\* the reply is sent in the same step.
Verify2FAStart(w, tok, code) ==
    /\ resp = NoReply
    /\ Free(w)
    /\ LET user == GetByID(tok.user_id)
           err == AuthUsecase_Verify2FA_Check(tok, code, user, now)
           r == AuthUsecase_Verify2FA_Finish(user, now)
       IN  IF TempAuthMiddleware(tok, now) # ""
           THEN /\ Quiet
                /\ resp' = Reply("Verify2FA", StatusUnauthorized,
                                 TempAuthMiddleware(tok, now), AuthResponse, NoUser, "", tok)
                /\ UNCHANGED <<local, issued>>
           ELSE IF Verify2FA_Validate(code) # ""
           THEN /\ Quiet
                /\ resp' = Reply("Verify2FA", StatusBadRequest, Verify2FA_Validate(code),
                                 AuthResponse, NoUser, code, tok)
                /\ UNCHANGED <<local, issued>>
           ELSE IF err # ""
           THEN /\ resp' = Reply("Verify2FA", StatusUnauthorized, err, AuthResponse,
                                 user, code, tok)
                /\ UNCHANGED <<local, issued>>
           ELSE IF user.is_2fa_enabled
           THEN /\ resp' = Reply("Verify2FA", StatusOK, "2FA verification successful",
                                 r, user, code, tok)
                /\ issued' = Keep({r.token})
                /\ UNCHANGED local
           ELSE /\ local' = Start(w, "verify_enable", "", "", "", user)
                /\ UNCHANGED <<resp, issued>>
    /\ UNCHANGED <<users, now>>
    /\ UNCHANGED aux

\* userRepo.Enable2FA, GenerateToken and the reply.
Verify2FAEnable(w) ==
    /\ resp = NoReply
    /\ local[w].pc = "verify_enable"
    /\ users' = Enable2FA(local[w].user.id)
    /\ LET r == AuthUsecase_Verify2FA_Finish(local[w].user, now)
       IN  /\ resp' = Reply("Verify2FA", StatusOK, "2FA verification successful",
                            r, local[w].user, "", NoToken)
           /\ issued' = Keep({r.token})
    /\ local' = Done(w)
    /\ UNCHANGED now
    /\ UNCHANGED aux

\* ---- the store failing (connection lost, query timed out) under a handler

\* Register: the GetByEmail of the use case fails.  The use case reads an
\* error as "no such account" and goes on to create the account.
RegisterReadFault(w, email, password, full_name) ==
    /\ resp = NoReply
    /\ Free(w)
    /\ Register_Validate(email, password, full_name) = ""
    /\ local' = Start(w, "register_create", email, password, full_name, NoUser)
    /\ UNCHANGED <<users, issued, now, resp>>
    /\ UNCHANGED aux

\* Register: the INSERT fails; the handler answers every error of the use
\* case with BadRequest.
RegisterCreateFault(w) ==
    /\ resp = NoReply
    /\ local[w].pc = "register_create"
    /\ resp' = Reply("Register", StatusBadRequest, "failed to create user: connection lost",
                     AuthResponse, NoUser, "", NoToken)
    /\ local' = Done(w)
    /\ UNCHANGED <<users, issued, now>>
    /\ UNCHANGED aux

\* Login: GetByEmail fails; the use case answers any error of the read with
\* "invalid credentials", the handler with Unauthorized.
LoginReadFault(w, email, password) ==
    /\ resp = NoReply
    /\ Free(w)
    /\ Quiet
    /\ Login_Validate(email, password) = ""
    /\ resp' = Login_Reply(AuthUsecase_Login(NoUser, password, now), NoUser, "")
    /\ UNCHANGED <<users, issued, now, local>>
    /\ UNCHANGED aux

\* Setup2FA: GetByID fails; the handler answers every error of the use case
\* with InternalServerError.
Setup2FAReadFault(w, tok) ==
    /\ resp = NoReply
    /\ Free(w)
    /\ Quiet
    /\ AuthMiddleware(tok, now) = ""
    /\ resp' = Reply("Setup2FA", StatusInternalServerError, "user not found",
                     AuthResponse, NoUser, "", tok)
    /\ UNCHANGED <<users, issued, now, local>>
    /\ UNCHANGED aux

\* Setup2FA: UpdateTOTPSecret fails.
Setup2FASaveFault(w) ==
    /\ resp = NoReply
    /\ local[w].pc = "setup_save"
    /\ resp' = Reply("Setup2FA", StatusInternalServerError,
                     "failed to save TOTP secret: connection lost",
                     AuthResponse, NoUser, "", NoToken)
    /\ local' = Done(w)
    /\ UNCHANGED <<users, issued, now>>
    /\ UNCHANGED aux

\* Verify2FA: GetByID fails; the handler answers every error of the use case
\* with Unauthorized.
Verify2FAReadFault(w, tok, code) ==
    /\ resp = NoReply
    /\ Free(w)
    /\ Quiet
    /\ TempAuthMiddleware(tok, now) = ""
    /\ Verify2FA_Validate(code) = ""
    /\ resp' = Reply("Verify2FA", StatusUnauthorized,
                     AuthUsecase_Verify2FA_Check(tok, code, NoUser, now),
                     AuthResponse, NoUser, "", tok)
    /\ UNCHANGED <<users, issued, now, local>>
    /\ UNCHANGED aux

\* Verify2FA: Enable2FA fails.
Verify2FAEnableFault(w) ==
    /\ resp = NoReply
    /\ local[w].pc = "verify_enable"
    /\ resp' = Reply("Verify2FA", StatusUnauthorized, "failed to enable 2FA: connection lost",
                     AuthResponse, NoUser, "", NoToken)
    /\ local' = Done(w)
    /\ UNCHANGED <<users, issued, now>>
    /\ UNCHANGED aux

\* GET /auth/profile behind AuthMiddleware: the profile is built from the claims.
GetProfile(tok) ==
    /\ resp = NoReply
    /\ Quiet
    /\ resp' =
        IF AuthMiddleware(tok, now) # ""
        THEN Reply("GetProfile", StatusUnauthorized, AuthMiddleware(tok, now),
                   AuthResponse, NoUser, "", tok)
        ELSE Reply("GetProfile", StatusOK, "Profile retrieved successfully",
                   [AuthResponse EXCEPT !.user =
                        [NoUser EXCEPT !.id = tok.user_id, !.email = tok.email,
                                       !.is_2fa_enabled = tok.is_2fa]],
                   NoUser, "", tok)
    /\ UNCHANGED <<users, issued, now, local>>
    /\ UNCHANGED aux

\* GET /admin/logs/user/:user_id behind AuthMiddleware.
AdminLogs(tok) ==
    /\ resp = NoReply
    /\ Quiet
    /\ resp' =
        IF AuthMiddleware(tok, now) # ""
        THEN Reply("AdminLogs", StatusUnauthorized, AuthMiddleware(tok, now),
                   AuthResponse, NoUser, "", tok)
        ELSE Reply("AdminLogs", StatusOK, "Admin endpoint - not implemented yet",
                   AuthResponse, NoUser, "", tok)
    /\ UNCHANGED <<users, issued, now, local>>
    /\ UNCHANGED aux

\* UserRepository.Update, which no handler calls: an operator of the service
\* rewrites a row it has read, with is_active or is_2fa_enabled changed.  The
\* operator does not mark an account as enrolled that holds no secret.
Update(id, active, enabled) ==
    /\ resp = NoReply
    /\ id \in DOMAIN users
    /\ enabled => users[id].totp_secret # ""
    /\ <<active, enabled>> # <<users[id].is_active, users[id].is_2fa_enabled>>
    /\ users' = UpdateRow([users[id] EXCEPT !.is_active = active,
                                            !.is_2fa_enabled = enabled])
    /\ UNCHANGED <<issued, now, local, resp>>
    /\ UNCHANGED aux

\* The clock advances between requests: a request is served well within one
\* clock unit.
Tick ==
    /\ resp = NoReply
    /\ now < MaxTime
    /\ Quiet
    /\ now' = now + 1
    /\ UNCHANGED <<users, issued, local, resp>>
    /\ UNCHANGED aux

Init ==
    /\ users = <<>>
    /\ issued = {}
    /\ now = 0
    /\ local = [w \in Workers |-> Idle]
    /\ resp = NoReply
    /\ hashed = <<>>
    /\ checked = NoCheck
    /\ received = 0
    /\ inflight = [w \in Workers |-> NoRequest]
    /\ served = {}
    /\ logs = {}
    /\ upstream = <<>>
    /\ returned = NoSearch

\* resp holds one reply at a time: every other step waits (resp = NoReply)
\* until the reply before it has left the server.
Deliver ==
    /\ resp # NoReply
    /\ resp' = NoReply
    /\ UNCHANGED <<users, issued, now, local>>
    /\ UNCHANGED aux

Next ==
    \/ \E w \in Workers, email \in RegisterEmails, password \in RegisterPasswords,
          full_name \in FullNames : RegisterStart(w, email, password, full_name)
    \/ \E w \in Workers, salt \in Salts : RegisterCreate(w, salt)
    \/ \E w \in Workers, email \in LoginEmails, password \in LoginPasswords :
          LoginStart(w, email, password)
    \/ \E w \in Workers : LoginFinish(w)
    \/ \E w \in Workers, tok \in Presentable : Setup2FAStart(w, tok)
    \/ \E w \in Workers, secret \in Secrets : Setup2FASave(w, secret)
    \/ \E w \in Workers, tok \in Presentable, code \in CodeInputs :
          Verify2FAStart(w, tok, code)
    \/ \E w \in Workers : Verify2FAEnable(w)
    \/ \E tok \in Presentable : GetProfile(tok)
    \/ \E tok \in Presentable : AdminLogs(tok)
    \/ \E id \in Ids, active \in BOOLEAN, enabled \in BOOLEAN : Update(id, active, enabled)
    \/ Tick
    \/ Deliver

Spec == Init /\ [][Next]_vars

\* The same server over a store that can fail under any access.
StoreFault ==
    \/ \E w \in Workers, email \in RegisterEmails, password \in RegisterPasswords,
          full_name \in FullNames : RegisterReadFault(w, email, password, full_name)
    \/ \E w \in Workers : RegisterCreateFault(w)
    \/ \E w \in Workers, email \in LoginEmails, password \in LoginPasswords :
          LoginReadFault(w, email, password)
    \/ \E w \in Workers, tok \in Presentable : Setup2FAReadFault(w, tok)
    \/ \E w \in Workers : Setup2FASaveFault(w)
    \/ \E w \in Workers, tok \in Presentable, code \in CodeInputs :
          Verify2FAReadFault(w, tok, code)
    \/ \E w \in Workers : Verify2FAEnableFault(w)

NextFaults == Next \/ StoreFault

SpecFaults == Init /\ [][NextFaults]_vars

\* ------------------------------------------- the password hasher alone

\* crypto.HashPassword: bcrypt draws the salt from crypto/rand, and no salt
\* is drawn twice.  A password longer than BcryptMaxBytes is refused by the
\* library versions that know ErrPasswordTooLong (strict) and cut to
\* BcryptMaxBytes by the older ones.
HashPasswordStep(password, strict) ==
    /\ Len(hashed) < MaxHashes
    /\ hashed' = Append(hashed,
            IF strict /\ Len(password) > BcryptMaxBytes
            THEN [password |-> password, hash |-> NoHash, err |-> "password too long"]
            ELSE [password |-> password, hash |-> HashPassword(password, Len(hashed) + 1),
                  err |-> ""])
    /\ UNCHANGED <<checked, authVars, loggingVars, restaurantVars>>

\* crypto.CheckPassword on a hash returned before or on a string that is no hash.
CheckPasswordStep(password, hash) ==
    /\ checked' = [password |-> password, hash |-> hash,
                   ok |-> CheckPassword(password, hash), called |-> TRUE]
    /\ UNCHANGED <<hashed, authVars, loggingVars, restaurantVars>>

Hashes == {hashed[i].hash : i \in 1..Len(hashed)} \cup Unparseable

InitPassword == Init

NextPassword ==
    \/ \E password \in HasherPasswords, strict \in BOOLEAN : HashPasswordStep(password, strict)
    \/ \E password \in HasherPasswords, hash \in Hashes : CheckPasswordStep(password, hash)

SpecPassword == InitPassword /\ [][NextPassword]_vars

\* --------------------------------------------- request logging alone

\* Variant: a middleware that starts no log write.
StartLog_None(id, result) == {}

\* The goroutine LoggingMiddleware starts for a request: one LogRequest call
\* with the status read from the response, under a deadline of its own.
StartLog(id, result) ==
    {[id |-> id, status |-> result.status, age |-> 0, state |-> "running"]}

\* A request enters LoggingMiddleware, which calls c.Next().
Receive(w) ==
    /\ inflight[w].pc = "idle"
    /\ received < MaxRequests
    /\ received' = received + 1
    /\ inflight' = [inflight EXCEPT ![w] = [pc |-> "next", id |-> received + 1,
                                            result |-> NoResult]]
    /\ UNCHANGED <<served, logs, authVars, passwordVars, restaurantVars>>

\* c.Next() returns: the rest of the chain has handled the request.
HandlerReturn(w, result) ==
    /\ inflight[w].pc = "next"
    /\ inflight' = [inflight EXCEPT ![w].pc = "handled", ![w].result = result]
    /\ UNCHANGED <<received, served, logs, authVars, passwordVars, restaurantVars>>

\* The rest of LoggingMiddleware: it builds the log request, starts the
\* goroutine and returns the error c.Next() returned.
Respond(w) ==
    /\ inflight[w].pc = "handled"
    /\ served' = served \cup {[id |-> inflight[w].id, downstream |-> inflight[w].result,
                               sent |-> inflight[w].result]}
    /\ logs' = logs \cup StartLog(inflight[w].id, inflight[w].result)
    /\ inflight' = [inflight EXCEPT ![w] = NoRequest]
    /\ UNCHANGED <<received, authVars, passwordVars, restaurantVars>>

Settle(g, state) == (logs \ {g}) \cup {[g EXCEPT !.state = state]}

\* RequestLogUsecase.LogRequest returns nil: the row is written.
LogWritten(g) ==
    /\ g.state = "running"
    /\ logs' = Settle(g, "written")
    /\ UNCHANGED <<received, inflight, served, authVars, passwordVars, restaurantVars>>

\* LogRequest returns an error of the store; the goroutine drops it.
LogFailed(g) ==
    /\ g.state = "running"
    /\ logs' = Settle(g, "failed")
    /\ UNCHANGED <<received, inflight, served, authVars, passwordVars, restaurantVars>>

\* The deadline of the goroutine's context passes before the store answers:
\* LogRequest returns the context's error; the goroutine drops it.
LogTimedOut(g) ==
    /\ g.state = "running"
    /\ g.age = LogTimeout
    /\ logs' = Settle(g, "timed out")
    /\ UNCHANGED <<received, inflight, served, authVars, passwordVars, restaurantVars>>

\* A second passes for the log writes that are running.
LogTick ==
    /\ \E g \in logs : g.state = "running"
    /\ \A g \in logs : g.state = "running" => g.age < LogTimeout
    /\ logs' = {IF g.state = "running" THEN [g EXCEPT !.age = g.age + 1] ELSE g : g \in logs}
    /\ UNCHANGED <<received, inflight, served, authVars, passwordVars, restaurantVars>>

InitLogging == Init

NextLogging ==
    \/ \E w \in Workers : Receive(w)
    \/ \E w \in Workers, result \in HandlerResults : HandlerReturn(w, result)
    \/ \E w \in Workers : Respond(w)
    \/ \E g \in logs : LogWritten(g)
    \/ \E g \in logs : LogFailed(g)
    \/ \E g \in logs : LogTimedOut(g)
    \/ LogTick

SpecLogging == InitLogging /\ [][NextLogging]_vars

\* --------------------------------------------- restaurant search alone

\* The places API answers one more entry to the search under way.
UpstreamAnswer(open) ==
    /\ ~returned.called
    /\ Len(upstream) < MaxUpstream
    /\ upstream' = Append(upstream, Place(Len(upstream) + 1, open))
    /\ UNCHANGED <<returned, authVars, passwordVars, loggingVars>>

\* RestaurantUsecase.SearchByName with a query that passes its validation,
\* on the answer of the repository.
SearchByName ==
    /\ ~returned.called
    /\ returned' = [called |-> TRUE, op |-> "SearchByName",
                    restaurants |-> filterAndEnhanceResults(upstream)]
    /\ UNCHANGED <<upstream, authVars, passwordVars, loggingVars>>

\* RestaurantUsecase.SearchNearby with coordinates that pass its validation.
SearchNearby ==
    /\ ~returned.called
    /\ returned' = [called |-> TRUE, op |-> "SearchNearby",
                    restaurants |-> filterAndEnhanceResults(upstream)]
    /\ UNCHANGED <<upstream, authVars, passwordVars, loggingVars>>

InitRestaurant == Init

NextRestaurant ==
    \/ \E open \in BOOLEAN : UpstreamAnswer(open)
    \/ SearchByName
    \/ SearchNearby

SpecRestaurant == InitRestaurant /\ [][NextRestaurant]_vars

\* ------------------------------------------------------------ claims

LoginRejected(r) ==
    /\ r.status = StatusUnauthorized
    /\ r.message = "invalid credentials"
    /\ r.token = NoToken /\ r.temp_token = NoToken /\ r.user = NoUser

\* C1 (as claimed): a Login on an account whose is_active is false is answered
\* like a Login with an unknown email or a wrong password, 401 "invalid
\* credentials", whether the password given is the account's or not.
C1_DisabledLikeBadCredentials ==
    (resp.op = "Login" /\ resp.seen # NoUser /\ ~resp.seen.is_active)
        => LoginRejected(resp)

\* C2: a Login with an email no account has and a Login with an account's
\* email and a wrong password are answered alike, 401 "invalid credentials",
\* and neither is given a token: in the replies sent, and for every row of
\* the store and every password that is not the row's.
C2_UnknownEmailLikeWrongPassword ==
    /\ (/\ resp.op = "Login"
        /\ resp.status # StatusBadRequest
        /\ (resp.seen = NoUser \/ ~CheckPassword(resp.given, resp.seen.password)))
            => LoginRejected(resp)
    /\ \A id \in DOMAIN users, p \in LoginPasswords, q \in LoginPasswords :
            ~CheckPassword(p, users[id].password)
                => /\ Login_Reply(AuthUsecase_Login(users[id], p, now), NoUser, "")
                        = Login_Reply(AuthUsecase_Login(NoUser, q, now), NoUser, "")
                   /\ AuthUsecase_Login(users[id], p, now).token = NoToken
                   /\ AuthUsecase_Login(users[id], p, now).temp_token = NoToken

C2_Witness ==
    /\ resp.op = "Login"
    /\ resp.seen # NoUser
    /\ resp.given # ""
    /\ ~CheckPassword(resp.given, resp.seen.password)

\* C3: a successful Login on an account with is_2fa_enabled set returns a
\* temporary token for the account and Requires2FA, and neither a session
\* token nor the account.
C3_Login2FAOnlyTemporary ==
    (resp.op = "Login" /\ resp.status = StatusOK /\ resp.seen.is_2fa_enabled)
        => /\ resp.requires_2fa
           /\ resp.temp_token # NoToken
           /\ resp.temp_token.temp_auth
           /\ resp.temp_token.user_id = resp.seen.id
           /\ ValidateTempToken(resp.temp_token, now) = ""
           /\ resp.token = NoToken
           /\ resp.user = NoUser

C3_Witness ==
    resp.op = "Login" /\ resp.status = StatusOK /\ resp.seen.is_2fa_enabled

\* C4: a Login with the account's password on an active account with
\* is_2fa_enabled unset succeeds with a session token for that account
\* (temp_auth unset, accepted by the full-session gate), Requires2FA false
\* and no temporary token.
C4_LoginNo2FASession ==
    (/\ resp.op = "Login"
     /\ resp.seen # NoUser
     /\ CheckPassword(resp.given, resp.seen.password)
     /\ resp.seen.is_active
     /\ ~resp.seen.is_2fa_enabled)
        => /\ resp.status = StatusOK
           /\ resp.token # NoToken
           /\ ~resp.token.temp_auth
           /\ resp.token.user_id = resp.seen.id
           /\ resp.token.email = resp.seen.email
           /\ AuthMiddleware(resp.token, now) = ""
           /\ ~resp.requires_2fa
           /\ resp.temp_token = NoToken
           /\ resp.user.id = resp.seen.id

C4_Witness ==
    /\ resp.op = "Login"
    /\ resp.status = StatusOK
    /\ ~resp.seen.is_2fa_enabled
    /\ resp.token # NoToken

Protected == {"Setup2FA", "GetProfile", "AdminLogs"}

\* C5: the full-session gate never accepts a temporary token: a request to a
\* protected operation (Setup2FA, GetProfile, the admin route) that presents
\* a valid, unexpired temporary token is answered 401 without the handler
\* having run, and the gate refuses every temporary token the clients hold.
C5_GateRejectsTemporary ==
    /\ (/\ resp.op \in Protected
        /\ resp.auth.temp_auth
        /\ ValidateToken(resp.auth, now) = "")
            => /\ resp.status = StatusUnauthorized
               /\ resp.message = "Temporary token cannot be used for this endpoint"
               /\ resp.user = NoUser
               /\ resp.backup_codes = ""
    /\ \A tok \in issued :
            (tok.temp_auth /\ ValidateToken(tok, now) = "") => AuthMiddleware(tok, now) # ""

C5_Witness ==
    /\ resp.op = "Setup2FA"
    /\ resp.auth.temp_auth
    /\ ValidateToken(resp.auth, now) = ""
    /\ resp.status = StatusUnauthorized

\* C6: the 2FA-verify operation accepts temporary tokens alone.  A token that
\* validate_session refuses is refused for that reason; a token it accepts
\* with temp_auth unset is refused as not temporary; so a valid session token
\* presented to Verify2FA is answered 401 by the gate, and the use case
\* refuses it as well, whatever the code.
C6_VerifyNeedsTemporary ==
    /\ (resp.op = "Verify2FA" /\ resp.auth # NoToken /\ ~resp.auth.temp_auth)
            => /\ resp.status = StatusUnauthorized
               /\ resp.message = "Invalid or expired temporary token"
               /\ resp.token = NoToken
    /\ \A tok \in Presentable :
        /\ ValidateToken(tok, now) # "" => ValidateTempToken(tok, now) = ValidateToken(tok, now)
        /\ (ValidateToken(tok, now) = "" /\ ~tok.temp_auth)
            => /\ ValidateTempToken(tok, now) = "not a temporary token"
               /\ TempAuthMiddleware(tok, now) # ""
               /\ \A code \in CodeInputs :
                    AuthUsecase_Verify2FA_Check(tok, code, GetByID(tok.user_id), now)
                        = "invalid or expired temporary token"

C6_Witness ==
    /\ resp.op = "Verify2FA"
    /\ ~resp.auth.temp_auth
    /\ ValidateToken(resp.auth, now) = ""
    /\ GetByID(resp.auth.user_id).totp_secret # ""
    /\ resp.status = StatusUnauthorized

UpdateStep == \E id \in Ids, active \in BOOLEAN, enabled \in BOOLEAN : Update(id, active, enabled)

\* C7: is_2fa_enabled is monotonic under Register, Login, Setup2FA and
\* Verify2FA, in every interleaving of their steps: an account starts with it
\* unset, it is set only by the step of a Verify2FA on that account that
\* replies 200, and no step unsets it.
C7_Is2FAEnabledMonotonic ==
    [][UpdateStep \/
       \A id \in DOMAIN users' :
            IF id \notin DOMAIN users
            THEN ~users'[id].is_2fa_enabled
            ELSE /\ users[id].is_2fa_enabled => users'[id].is_2fa_enabled
                 /\ (~users[id].is_2fa_enabled /\ users'[id].is_2fa_enabled)
                        => /\ resp'.op = "Verify2FA"
                           /\ resp'.status = StatusOK
                           /\ resp'.seen.id = id]_vars

C7_Witness ==
    /\ resp.op = "Verify2FA"
    /\ resp.status = StatusOK
    /\ ~resp.seen.is_2fa_enabled
    /\ users[resp.seen.id].is_2fa_enabled

NextPublic == Next /\ ~UpdateStep

SpecPublic == Init /\ [][NextPublic]_vars /\ WF_vars(NextPublic)

Enrolled == \E id \in DOMAIN users : users[id].is_2fa_enabled

\* C9 (as claimed): 2FA enrollment can be completed through the public
\* operations alone: from registration, Login, Setup2FA and Verify2FA lead to
\* a state where an account has is_2fa_enabled set.
C9_EnrollmentCompletes == <>Enrolled

\* What the public operations do instead: no account is ever enrolled, and
\* no temporary token is ever issued.
C9_NeverEnrolled == ~Enrolled /\ \A tok \in issued : ~tok.temp_auth

RegisterValidationMessages ==
    {Register_Validate(email, password, full_name) :
        email \in RegisterEmails, password \in RegisterPasswords, full_name \in FullNames}

EmailUnique ==
    \A i \in DOMAIN users, j \in DOMAIN users : users[i].email = users[j].email => i = j

\* C10 (as claimed): of two concurrent Register calls with the same email one
\* succeeds and the other fails as AlreadyExists, however their pre-check and
\* insert steps interleave, and the store never holds two accounts with one
\* email: a valid Register that does not create the account is answered
\* "user already exists".
C10_RaceLoserAlreadyExists ==
    /\ EmailUnique
    /\ (/\ resp.op = "Register"
        /\ resp.status # StatusCreated
        /\ resp.message \notin RegisterValidationMessages)
            => resp.message = "user already exists"

\* C11: a valid Register with an email an account already has is answered
\* 400 "user already exists" at the pre-check, and the step creates nothing
\* and leaves the existing row (password hash, flags, secret) as it was.
C11_RegisterExistingEmail ==
    [][\A w \in Workers, email \in RegisterEmails, password \in RegisterPasswords,
          full_name \in FullNames :
            (/\ RegisterStart(w, email, password, full_name)
             /\ Register_Validate(email, password, full_name) = ""
             /\ UniqueViolation(email))
                => /\ resp'.op = "Register"
                   /\ resp'.status = StatusBadRequest
                   /\ resp'.message = "user already exists"
                   /\ resp'.user = NoUser
                   /\ users' = users
                   /\ local' = local]_vars

C11_Witness ==
    /\ resp.op = "Register"
    /\ resp.message = "user already exists"
    /\ resp.seen \in {users[id] : id \in DOMAIN users}
    /\ resp.seen.totp_secret # ""

\* C12: the step of Setup2FA that stores the generated secret replaces the
\* secret of the account, whether it had one or not, and changes nothing
\* else of the store: is_2fa_enabled is what it was; the secret returned is
\* the secret stored.
C12_Setup2FAKeepsFlag ==
    [][\A w \in Workers, secret \in Secrets :
            Setup2FASave(w, secret)
                => /\ local[w].user.id \in DOMAIN users
                   /\ users' = [users EXCEPT ![local[w].user.id].totp_secret = secret]
                   /\ users'[local[w].user.id].is_2fa_enabled
                        = users[local[w].user.id].is_2fa_enabled
                   /\ resp'.status = StatusOK
                   /\ resp'.backup_codes = secret]_vars

C12_Witness ==
    /\ resp.op = "Setup2FA"
    /\ resp.status = StatusOK
    /\ users[resp.seen.id].is_2fa_enabled
    /\ users[resp.seen.id].totp_secret = resp.backup_codes

\* C13: a Verify2FA whose token fails ValidateTempToken (bad signature, wrong
\* method, expired, not temporary, none) is answered 401 at the gate, before
\* the store is read: the reply holds no row and no token, the step changes
\* nothing, and the use case would refuse it whatever the store holds.
C13_BadTokenBeforeStore ==
    [][\A w \in Workers, tok \in Presentable, code \in CodeInputs :
            (Verify2FAStart(w, tok, code) /\ ValidateTempToken(tok, now) # "")
                => /\ resp'.op = "Verify2FA"
                   /\ resp'.status = StatusUnauthorized
                   /\ resp'.message =
                        IF tok = NoToken THEN "Authorization header is required"
                        ELSE "Invalid or expired temporary token"
                   /\ resp'.seen = NoUser
                   /\ resp'.token = NoToken
                   /\ users' = users /\ issued' = issued /\ local' = local
                   /\ \A id \in Ids :
                        AuthUsecase_Verify2FA_Check(tok, code, GetByID(id), now)
                            = "invalid or expired temporary token"]_vars

C13_Witness ==
    /\ resp.op = "Verify2FA"
    /\ resp.status = StatusUnauthorized
    /\ resp.auth.temp_auth
    /\ resp.auth.key = "server" /\ resp.auth.alg = "HS256"
    /\ ValidateTempToken(resp.auth, now) = "token is expired"

\* What the claims call a valid code: the code the engine derives from the
\* account's secret, and none when the account has no secret.
CodeValid(code, secret) == secret # "" /\ TotpValidate(code, secret)

C14_MismatchInvalidCode ==
    (/\ resp.op = "Verify2FA"
     /\ resp.auth # NoToken
     /\ resp.seen # NoUser
     /\ ~TotpValidate(resp.given, resp.seen.totp_secret))
        => /\ resp.status = StatusUnauthorized
           /\ resp.message = "invalid 2FA code"
           /\ resp.token = NoToken
           /\ users[resp.seen.id] = resp.seen

\* C15: every Verify2FA that replies 200 returns a session token (temp_auth
\* unset, is_2fa set, accepted by the full-session gate) for the account its
\* temporary token names, and leaves that account with is_2fa_enabled set:
\* the store is unchanged when it was set already, and differs by the flag
\* alone otherwise.
C15_VerifySuccess ==
    [][/\ (resp' # resp /\ resp'.op = "Verify2FA" /\ resp'.status = StatusOK)
            => /\ resp'.seen.id \in DOMAIN users
               /\ resp'.token # NoToken
               /\ ~resp'.token.temp_auth
               /\ resp'.token.is_2fa
               /\ resp'.token.user_id = resp'.seen.id
               /\ resp'.token.email = resp'.seen.email
               /\ AuthMiddleware(resp'.token, now') = ""
               /\ resp'.temp_token = NoToken
               /\ resp'.auth # NoToken => resp'.auth.user_id = resp'.seen.id
               /\ users'[resp'.seen.id].is_2fa_enabled
               /\ users' = IF users[resp'.seen.id].is_2fa_enabled
                           THEN users ELSE Enable2FA(resp'.seen.id)
       /\ \A w \in Workers, tok \in Presentable, code \in CodeInputs :
            (Verify2FAStart(w, tok, code) /\ local'[w].pc = "verify_enable")
                => local'[w].user = GetByID(tok.user_id)]_vars

C15_Witness ==
    /\ resp.op = "Verify2FA"
    /\ resp.status = StatusOK
    /\ resp.token.is_2fa
    /\ resp.auth = NoToken
    /\ ~resp.seen.is_2fa_enabled

Genuine(tok) == tok # NoToken /\ tok.key = "server" /\ tok.alg = "HS256"

\* C16: a temporary token is not consumed by use.  Whatever a Verify2FA step
\* answers, the temporary tokens issued are accepted after it as before it,
\* and pass the verification with the code of the account's secret; what
\* ends a temporary token is its expiry, from which on it is refused.
C16_TempTokenNotConsumed ==
    [][/\ (resp' # resp /\ resp'.op = "Verify2FA")
            => \A tok \in issued \cup {resp'.auth} :
                    (Genuine(tok) /\ tok.temp_auth /\ now < tok.exp)
                        => /\ tok \in issued => tok \in issued'
                           /\ ValidateTempToken(tok, now') = ""
                           /\ TempAuthMiddleware(tok, now') = ""
                           /\ tok.user_id \in DOMAIN users'
                                => AuthUsecase_Verify2FA_Check(
                                        tok, CodeOf(users'[tok.user_id].totp_secret),
                                        users'[tok.user_id], now') = ""
       /\ \A tok \in issued :
            (tok.temp_auth /\ ~(now < tok.exp))
                => /\ ValidateTempToken(tok, now) = "token is expired"
                   /\ TempAuthMiddleware(tok, now) = "Invalid or expired temporary token"
                   /\ \A code \in CodeInputs :
                        AuthUsecase_Verify2FA_Check(tok, code, GetByID(tok.user_id), now)
                            = "invalid or expired temporary token"]_vars

C16_Witness ==
    /\ resp.op = "Verify2FA"
    /\ resp.status = StatusOK
    /\ resp.seen.is_2fa_enabled
    /\ resp.auth \in issued
    /\ ValidateTempToken(resp.auth, now) = ""

\* The codes of six ASCII digits among the codes presented.
SixDigits == {"111111", "222222", "000000"}

\* C17 (as claimed): a Verify2FA that passes the gate with a code that is not
\* six ASCII digits is answered 400 before the account is read and before
\* the TOTP engine is asked.
C17_MalformedCodeRejected ==
    (/\ resp.op = "Verify2FA"
     /\ TempAuthMiddleware(resp.auth, now) = ""
     /\ resp.given \notin SixDigits)
        => /\ resp.status = StatusBadRequest
           /\ resp.seen = NoUser

\* The part of C17 the code keeps: a code whose length is not six is answered
\* 400 before the account is read.
C17_WrongLengthRejected ==
    (/\ resp.op = "Verify2FA"
     /\ TempAuthMiddleware(resp.auth, now) = ""
     /\ Len(resp.given) # CodeLen)
        => /\ resp.status = StatusBadRequest
           /\ resp.seen = NoUser

C19_ExpiredRejected ==
    /\ \A tok \in issued :
            ~(now < tok.exp)
                => /\ ValidateToken(tok, now) = "token is expired"
                   /\ ValidateTempToken(tok, now) = "token is expired"
                   /\ AuthMiddleware(tok, now) = "Invalid or expired token"
                   /\ TempAuthMiddleware(tok, now) = "Invalid or expired temporary token"
    /\ \A id \in Ids, email \in Emails, is2FA \in BOOLEAN, d \in 0 .. 1 :
            /\ GenerateToken(id, email, is2FA, now).exp = now + SessionTTL
            /\ ValidateToken(GenerateToken(id, email, is2FA, now), now + SessionTTL + d) # ""
            /\ GenerateTempToken(id, email, now).exp = now + TempTTL
            /\ ValidateTempToken(GenerateTempToken(id, email, now), now + TempTTL + d) # ""
    /\ (/\ resp.op \in Protected \cup {"Verify2FA"}
        /\ Genuine(resp.auth)
        /\ ~(now < resp.auth.exp))
            => /\ resp.status = StatusUnauthorized
               /\ resp.token = NoToken
               /\ resp.user = NoUser

C19_Witness ==
    /\ resp.op = "GetProfile"
    /\ resp.status = StatusUnauthorized
    /\ Genuine(resp.auth)
    /\ ~resp.auth.temp_auth
    /\ ~(now < resp.auth.exp)

\* C20: the lifetime of a temporary token is TempTTL, whatever the lifetime
\* SessionTTL the manager was configured with for session tokens.
C20_TempLifetimeFixed ==
    /\ \A tok \in issued \cup {resp.temp_token} :
            (tok # NoToken /\ tok.temp_auth) => tok.exp = tok.nbf + TempTTL
    /\ \A id \in Ids, email \in Emails :
            GenerateTempToken(id, email, now).exp = now + TempTTL

C20_Witness ==
    /\ resp.op = "Login"
    /\ resp.temp_token # NoToken
    /\ resp.temp_token.exp = now + TempTTL
    /\ \E tok \in issued : ~tok.temp_auth /\ tok.nbf = now /\ tok.exp # resp.temp_token.exp

\* C21 (as claimed): CheckPassword answers true for a password and a hash
\* exactly when the hash was returned by HashPassword for that very password:
\* false for every other password, and false for a string that is no hash.
C21_VerifyExact ==
    checked.called
        => (checked.ok <=>
                \E i \in 1..Len(hashed) :
                    /\ hashed[i].err = ""
                    /\ hashed[i].hash = checked.hash
                    /\ hashed[i].password = checked.password)

C23_InvalidRegisterRejected ==
    /\ \A w \in Workers :
            local[w].pc = "register_create"
                => /\ local[w].email # "" /\ local[w].full_name # ""
                   /\ Len(local[w].password) >= MinPasswordLen
    /\ \A id \in DOMAIN users :
            /\ users[id].email # "" /\ users[id].full_name # ""
            /\ Len(users[id].password.pw) >= MinPasswordLen

\* C23, the part that holds: a Register request with an empty email, an
\* empty full_name or a password of fewer than 8 bytes is answered 400 with
\* the validation's message in the step that receives it; no handler takes
\* it up and the store is left as it was.
C23_ShortByBytesRejected ==
    [][\A w \in Workers, email \in RegisterEmails, password \in RegisterPasswords,
          full_name \in FullNames :
            (/\ RegisterStart(w, email, password, full_name)
             /\ (email = "" \/ full_name = "" \/ Utf8Len(password) < MinPasswordLen))
                => /\ resp'.op = "Register"
                   /\ resp'.status = StatusBadRequest
                   /\ resp'.message \in RegisterValidationMessages
                   /\ resp'.user = NoUser
                   /\ users' = users
                   /\ local' = local]_vars

\* A handler's store access fails and the handler replies.
StoreFaultReply ==
    \/ \E w \in Workers : RegisterCreateFault(w)
    \/ \E w \in Workers, email \in LoginEmails, password \in LoginPasswords :
          LoginReadFault(w, email, password)
    \/ \E w \in Workers, tok \in Presentable : Setup2FAReadFault(w, tok)
    \/ \E w \in Workers : Setup2FASaveFault(w)
    \/ \E w \in Workers, tok \in Presentable, code \in CodeInputs :
          Verify2FAReadFault(w, tok, code)
    \/ \E w \in Workers : Verify2FAEnableFault(w)

\* C24 (as claimed): a failure of the store under Register, Login, Setup2FA
\* or Verify2FA is answered with a 500-class status, never with 400 or 401.
C24_StoreFaultIs500 ==
    [][StoreFaultReply => resp'.status >= StatusInternalServerError]_vars

\* C24, the part that holds: a failure of the store under Setup2FA, on the
\* read or on the write, is answered 500.
C24_Setup2FAFaultIs500 ==
    [][\A w \in Workers :
            (Setup2FASaveFault(w) \/ \E tok \in Presentable : Setup2FAReadFault(w, tok))
                => resp'.status = StatusInternalServerError]_vars

\* C25 (as claimed): the account returned by Register, by a successful Login
\* and by a successful Verify2FA carries neither the password hash nor the
\* TOTP secret, whatever the store holds for the account.
C25_ViewsStripped ==
    (resp.op \in {"Register", "Login", "Verify2FA"} /\ resp.user # NoUser)
        => /\ resp.user.password = NoHash
           /\ resp.user.totp_secret = ""

\* C25, the part that holds: no account returned carries the password hash,
\* and the account returned by Register and by Verify2FA carries no TOTP
\* secret.
C25_HashStripped ==
    (resp.op \in {"Register", "Login", "Verify2FA"} /\ resp.user # NoUser)
        => /\ resp.user.password = NoHash
           /\ (resp.op # "Login" => resp.user.totp_secret = "")

C26_LoginOvertaken ==
    \E w \in Workers :
        /\ local[w].pc = "login_check"
        /\ ~local[w].user.is_2fa_enabled
        /\ local[w].user.is_active
        /\ CheckPassword(local[w].password, local[w].user.password)
        /\ resp.op = "Verify2FA" /\ resp.status = StatusOK
        /\ resp.user.id = local[w].user.id
        /\ users[local[w].user.id].is_2fa_enabled

\* What the signature, the validity window and the temporary marker of a
\* token say at time t, the store aside.
SessionAcceptable(tok, t) ==
    /\ tok.alg = "HS256" /\ tok.key = "server"
    /\ tok.nbf <= t /\ t < tok.exp
    /\ ~tok.temp_auth

TempAcceptable(tok, t) ==
    /\ tok.alg = "HS256" /\ tok.key = "server"
    /\ tok.nbf <= t /\ t < tok.exp
    /\ tok.temp_auth

\* C27: whether a gate lets a request through, and the identity the request
\* then runs under, is decided by the token and the clock alone, whatever the
\* store holds: a session token is let through until it expires, also once
\* its account is disabled or has 2FA enabled, and the profile served is the
\* one of the claims.
C27_GatesIgnoreStore ==
    /\ resp.op \in {"GetProfile", "AdminLogs"}
            => (resp.status = StatusOK <=> SessionAcceptable(resp.auth, now))
    /\ (resp.op = "GetProfile" /\ resp.status = StatusOK)
            => /\ resp.user.id = resp.auth.user_id
               /\ resp.user.email = resp.auth.email
               /\ resp.user.is_2fa_enabled = resp.auth.is_2fa
    /\ (resp.op = "Setup2FA" /\ resp.auth # NoToken)
            => (resp.status = StatusUnauthorized <=> ~SessionAcceptable(resp.auth, now))
    /\ (resp.op = "Verify2FA" /\ resp.auth # NoToken)
            => (resp.message = "Invalid or expired temporary token"
                    <=> ~TempAcceptable(resp.auth, now))
    /\ \A tok \in Presentable :
            /\ (AuthMiddleware(tok, now) = "") <=> SessionAcceptable(tok, now)
            /\ (TempAuthMiddleware(tok, now) = "") <=> TempAcceptable(tok, now)

C27_Witness ==
    /\ resp.op = "GetProfile"
    /\ resp.status = StatusOK
    /\ ~users[resp.auth.user_id].is_active
    /\ users[resp.auth.user_id].is_2fa_enabled
    /\ ~resp.auth.is_2fa

\* The rows other than id are what they were.
OthersKept(id) ==
    \A j \in DOMAIN users : j # id => (j \in DOMAIN users' /\ users'[j] = users[j])

\* C28: the store changes only in a step that replies success: a Register
\* answered 201 adds one account, active, 2FA off and without secret; a
\* Setup2FA answered 200 writes the secret of one account; a Verify2FA
\* answered 200 sets is_2fa_enabled of one account.  No Login step and no
\* step of a request that fails (refused, or broken off by a store failure)
\* changes an account.  (The operator's Update is not a request.)
C28_OnlySuccessWrites ==
    [][(users' # users /\ ~UpdateStep)
        => \/ /\ resp'.op = "Register" /\ resp'.status = StatusCreated
              /\ \E id \in Ids \ DOMAIN users :
                    /\ DOMAIN users' = DOMAIN users \cup {id}
                    /\ OthersKept(id)
                    /\ users'[id].is_active
                    /\ ~users'[id].is_2fa_enabled
                    /\ users'[id].totp_secret = ""
           \/ /\ resp'.op = "Setup2FA" /\ resp'.status = StatusOK
              /\ DOMAIN users' = DOMAIN users
              /\ \E id \in DOMAIN users :
                    /\ OthersKept(id)
                    /\ users'[id] = [users[id] EXCEPT !.totp_secret = resp'.backup_codes]
           \/ /\ resp'.op = "Verify2FA" /\ resp'.status = StatusOK
              /\ DOMAIN users' = DOMAIN users
              /\ \E id \in DOMAIN users :
                    /\ OthersKept(id)
                    /\ users'[id] = [users[id] EXCEPT !.is_2fa_enabled = TRUE]]_vars

C28_Witness ==
    /\ resp.op = "Setup2FA"
    /\ resp.status = StatusOK
    /\ users[resp.seen.id].totp_secret = resp.backup_codes
    /\ users[resp.seen.id].is_2fa_enabled

\* C29: LoggingMiddleware sends what the handler returned, unchanged; it
\* starts one log write per request, when the handler has returned and not
\* before; it sends the response without waiting, whatever state the log
\* writes are in; and a log write that fails or runs into its deadline leaves
\* every response as it was sent.
C29_LoggingFireAndForget ==
    /\ \A r \in served :
            /\ r.sent = r.downstream
            /\ Cardinality({g \in logs : g.id = r.id}) = 1
            /\ \A g \in logs : g.id = r.id => g.status = r.downstream.status
    /\ \A g \in logs : \E r \in served : r.id = g.id
    /\ \A w \in Workers : inflight[w].pc = "handled" => ENABLED Respond(w)
    /\ Cardinality(served) + Cardinality({w \in Workers : inflight[w].pc # "idle"}) = received
    /\ \A g \in logs : g.age <= LogTimeout

C29_Witness ==
    /\ \E g \in logs : g.state = "timed out"
    /\ \E g \in logs : g.state = "failed"
    /\ \E r \in served : r.downstream.err # ""
    /\ Cardinality(served) = 2

\* A name that is empty or made of spaces only.
Blank(name) == name \in {"", "   "}

\* The positions of a list whose entry has a name and is not closed for good.
Eligible(list) ==
    {i \in 1..Len(list) :
        ~Blank(list[i].name) /\ list[i].business_status # "CLOSED_PERMANENTLY"}

\* res is what the claim says of the answer list: the first MaxResults
\* eligible entries, in their order, each with its rating brought into
\* MinRating..MaxRating and an empty business status set to OPERATIONAL.
AsClaimed(list, res) ==
    /\ Len(res) = IF Cardinality(Eligible(list)) > MaxResults THEN MaxResults
                  ELSE Cardinality(Eligible(list))
    /\ \A k \in 1..Len(res) :
            \E i \in Eligible(list) :
                /\ Cardinality({j \in Eligible(list) : j < i}) = k - 1
                /\ res[k].place_id = list[i].place_id
                /\ res[k].rating >= MinRating /\ res[k].rating <= MaxRating
                /\ (list[i].rating < MinRating => res[k].rating = MinRating)
                /\ (list[i].rating > MaxRating => res[k].rating = MaxRating)
                /\ (list[i].rating >= MinRating /\ list[i].rating <= MaxRating
                        => res[k].rating = list[i].rating)
                /\ res[k].business_status # ""
                /\ res[k].business_status =
                        IF list[i].business_status = "" THEN "OPERATIONAL"
                        ELSE list[i].business_status

\* C30: what SearchByName and SearchNearby return for an answer of the
\* places API is, in the answer's order, the first at most 10 entries with a
\* non-blank name and a business status other than CLOSED_PERMANENTLY, each
\* with its rating clamped to 0..5 and an empty business status replaced by
\* OPERATIONAL: for the answer searched, and for every one-entry answer.
C30_SearchResults ==
    /\ returned.called => AsClaimed(upstream, returned.restaurants)
    /\ \A name \in Names, rating \in Ratings, status \in Statuses :
            AsClaimed(<<Restaurant(1, name, rating, status)>>,
                      filterAndEnhanceResults(<<Restaurant(1, name, rating, status)>>))

C30_Witness ==
    /\ returned.called
    /\ Cardinality(Eligible(upstream)) > MaxResults
    /\ Cardinality(Eligible(upstream)) < Len(upstream)
    /\ Len(returned.restaurants) = MaxResults
    /\ \E k \in 1..MaxResults : returned.restaurants[k].place_id > k
    /\ \E k \in 1..MaxResults :
            upstream[returned.restaurants[k].place_id].rating > MaxRating

====
